---- MODULE Spec2Model ----
(***************************************************************************)
(* A model of roxy (src/main.rs), a small static site generator.           *)
(*                                                                         *)
(* Text is modelled at the level the code works on it: a string is a       *)
(* sequence of one-character strings, a byte stream a sequence of bytes    *)
(* (an ASCII byte is its character; the two bytes of a two-byte UTF-8      *)
(* character are "C3" and "A9").  A filesystem path below the output root  *)
(* is the sequence of its components.                                      *)
(***************************************************************************)
EXTENDS Integers, Sequences, FiniteSets, TLC

VARIABLES
    tree,         \* the regular files under the content root (indices of Candidates)
    header,       \* per file: the value of `layout` in its frontmatter
    pc,           \* position of main(): "compile", "map", "create", "copy", "done", "failed"
    todo,         \* files (compile, copy) or items (create) the current loop has not visited
    contents,     \* Vec<Content> built by compile_content
    content_map,  \* the HashMap returned by compile_content_map
    outDirs,      \* directories that exist under the output root
    outFiles,     \* files that exist under the output root, with what they hold
    wrote,        \* history: per item visited by create_files, the outcome and the page's path
    copied,       \* history: the files copy_static has copied
    copy_status,  \* the io::Result of copy_static: "running", "ok", "err"
    stream,       \* read_frontmatter: the bytes of the file being read
    pos,          \* read_frontmatter: the reader's cursor (bytes consumed)
    hm,           \* read_frontmatter: the mapping built so far
    fmpc,         \* read_frontmatter: "start", "lines", "ok", "err", "body"
    md_input,     \* the text compile_content hands to the markdown parser
    base_context, \* create_files: the shared base context
    item_fields,  \* create_files: the serialized fields of the current item
    context,      \* create_files: the context handed to templates.render
    ctxpc         \* "merge", "rendered"

vars == <<tree, header, pc, todo, contents, content_map, outDirs, outFiles, wrote,
          copied, copy_status, stream, pos, hm, fmpc, md_input, base_context, item_fields,
          context, ctxpc>>

pipeVars == <<tree, header, pc, todo, contents, content_map, outDirs, outFiles,
              wrote, copied, copy_status>>
fmVars == <<stream, pos, hm, fmpc, md_input>>
ctxVars == <<base_context, item_fields, context, ctxpc>>

-----------------------------------------------------------------------------
(* Bounds of the model.                                                    *)

MaxFiles == 3     \* files in the content tree
MaxLines == 3     \* lines of a content file read by read_frontmatter

-----------------------------------------------------------------------------
(* Strings.                                                                *)

S_md      == <<"m", "d">>
S_html    == <<"h", "t", "m", "l">>
S_tera    == <<"t", "e", "r", "a">>
S_index   == <<"i", "n", "d", "e", "x">>
S_default == <<"d", "e", "f", "a", "u", "l", "t">>
S_layout  == <<"l", "a", "y", "o", "u", "t">>
Dot       == "."
Sep       == "/"
NL        == "\n"

\* Whether literal lit occurs in s at index i (1-based).
LitAt(s, i, lit) ==
    /\ i + Len(lit) - 1 <= Len(s)
    /\ \A k \in 1..Len(lit) : s[i + k - 1] = lit[k]

\* Indices of s holding character c.
IndicesOf(s, c) == {i \in 1..Len(s) : s[i] = c}

Min(S) == CHOOSE x \in S : \A y \in S : x <= y
Max(S) == CHOOSE x \in S : \A y \in S : x >= y

\* char::to_ascii_lowercase, on the letters the model's paths use.
AsciiLower(c) == IF c = "I" THEN "i" ELSE IF c = "R" THEN "r" ELSE c

EqIgnoreAsciiCase(a, b) ==
    /\ Len(a) = Len(b)
    /\ \A k \in 1..Len(a) : AsciiLower(a[k]) = AsciiLower(b[k])

\* str::split_once(c): <<before, after>> around the first c, or <<>> for None.
SplitOnce(s, c) ==
    IF IndicesOf(s, c) = {} THEN <<>>
    ELSE LET i == Min(IndicesOf(s, c))
         IN  <<SubSeq(s, 1, i - 1), SubSeq(s, i + 1, Len(s))>>

IsSpace(c) == c \in {" ", "\n", "\r", "\t"}

\* str::trim
Trim(s) ==
    LET keep == {i \in 1..Len(s) : ~IsSpace(s[i])}
    IN  IF keep = {} THEN <<>> ELSE SubSeq(s, Min(keep), Max(keep))

-----------------------------------------------------------------------------
(* std::path::Path, on relative slash-separated paths.                     *)

\* The byte index after the component that starts at i.
CompEnd(p, i) ==
    LET later == {j \in i..Len(p) : p[j] = Sep}
    IN  IF later = {} THEN Len(p) + 1 ELSE Min(later)

\* Path::components: the non-empty pieces between separators.
RECURSIVE ComponentsFrom(_, _)
ComponentsFrom(p, i) ==
    IF i > Len(p) THEN <<>>
    ELSE LET e == CompEnd(p, i)
         IN  IF e = i THEN ComponentsFrom(p, i + 1)
             ELSE <<SubSeq(p, i, e - 1)>> \o ComponentsFrom(p, e + 1)

Components(p) == ComponentsFrom(p, 1)

\* Path::file_name (the paths of the model never end in `..`).
HasFileName(p) == Components(p) # <<>>
FileName(p) == Components(p)[Len(Components(p))]

\* Path::parent: None only for the empty path.
HasParent(p) == Components(p) # <<>>
Parent(p) == SubSeq(Components(p), 1, Len(Components(p)) - 1)

\* rsplit_file_at_dot: a file name splits at its last dot, unless that dot
\* is its first byte.
SplitsAtDot(name) ==
    /\ IndicesOf(name, Dot) # {}
    /\ Max(IndicesOf(name, Dot)) > 1

\* Path::file_stem
FileStem(p) ==
    LET name == FileName(p)
    IN  IF SplitsAtDot(name)
        THEN SubSeq(name, 1, Max(IndicesOf(name, Dot)) - 1)
        ELSE name

\* Path::extension: HasExtension is `Some(_)`, Extension the value.
HasExtension(p) == HasFileName(p) /\ SplitsAtDot(FileName(p))
Extension(p) ==
    LET name == FileName(p)
    IN  SubSeq(name, Max(IndicesOf(name, Dot)) + 1, Len(name))

\* is_hidden
is_hidden(p) == HasFileName(p) /\ LitAt(FileName(p), 1, <<Dot>>)

-----------------------------------------------------------------------------
(* The pattern /?(index)?\.?(md|html|tera)(.+)? of compile_content.        *)

\* Positions reached from a position of P by matching lit or skipping it.
OptLit(s, P, lit) == P \cup {q + Len(lit) : q \in {r \in P : LitAt(s, r, lit)}}

ReExtensions == {S_md, S_html, S_tera}

\* Positions after /?(index)?\.?(md|html|tera) matched from index i.
ReCoreEnds(s, i) ==
    LET a == OptLit(s, {i}, <<Sep>>)
        b == OptLit(s, a, S_index)
        c == OptLit(s, b, <<Dot>>)
    IN  {q + Len(l) : <<q, l>> \in {ql \in c \X ReExtensions : LitAt(s, ql[1], ql[2])}}

\* (.+)? is greedy and `.` matches anything but a newline.
ReLineEnd(s, q) ==
    LET nls == {j \in q..Len(s) : s[j] = NL}
    IN  IF nls = {} THEN Len(s) + 1 ELSE Min(nls)

ReStarts(s) == {i \in 1..(Len(s) + 1) : ReCoreEnds(s, i) # {}}

\* Regex::is_match: the pattern is not anchored.
ReIsMatch(s) == ReStarts(s) # {}

\* Regex::replace(s, ""): the leftmost match is removed.
ReReplace(s) ==
    IF ReStarts(s) = {} THEN s
    ELSE LET i == Min(ReStarts(s))
             e == ReLineEnd(s, Max(ReCoreEnds(s, i)))
         IN  SubSeq(s, 1, i - 1) \o SubSeq(s, e, Len(s))

\* compile_content, lines 180-181.
Slug(file_path) == <<Sep>> \o ReReplace(file_path)

\* compile_content, lines 147-157: the file is neither hidden nor skipped
\* for its extension.
Accepted(file_path) ==
    /\ ~is_hidden(file_path)
    /\ ~(HasExtension(file_path) /\ ~ReIsMatch(Extension(file_path)))

\* copy_static, lines 216-221: the file is copied.
StaticExtensions == {S_md, S_html, S_tera}
Eligible(file_path) ==
    /\ ~is_hidden(file_path)
    /\ HasExtension(file_path)
    /\ Extension(file_path) \notin StaticExtensions

-----------------------------------------------------------------------------
(* The content trees of the model.  A tree is a set of the files below,    *)
(* named by relative path.  glob("<dir>/**/*") walks a directory's entries *)
(* in byte order of their names and descends into a directory when it      *)
(* meets it; Candidates lists the files in that order, so a tree is walked *)
(* in increasing index.                                                    *)

P_hidden_md          == <<".", "h", "i", "d", "d", "e", "n", ".", "m", "d">>   \* .hidden.md
P_Index_md           == <<"I", "n", "d", "e", "x", ".", "m", "d">>   \* Index.md
P_README             == <<"R", "E", "A", "D", "M", "E">>   \* README
P_about_index_html   == <<"a", "b", "o", "u", "t", "/", "i", "n", "d", "e", "x", ".", "h", "t", "m", "l">>   \* about/index.html
P_about_md           == <<"a", "b", "o", "u", "t", ".", "m", "d">>   \* about.md
P_bad_md             == <<"b", "a", "d", ".", "m", "d">>   \* bad.md
P_blog_pic_png       == <<"b", "l", "o", "g", "/", "p", "i", "c", ".", "p", "n", "g">>   \* blog/pic.png
P_blog_post_md       == <<"b", "l", "o", "g", "/", "p", "o", "s", "t", ".", "m", "d">>   \* blog/post.md
P_default_x_md       == <<"d", "e", "f", "a", "u", "l", "t", "/", "x", ".", "m", "d">>   \* default/x.md
P_img_logo_png       == <<"i", "m", "g", "/", "l", "o", "g", "o", ".", "p", "n", "g">>   \* img/logo.png
P_index_html_x_md    == <<"i", "n", "d", "e", "x", ".", "h", "t", "m", "l", "/", "x", ".", "m", "d">>   \* index.html/x.md
P_index_md           == <<"i", "n", "d", "e", "x", ".", "m", "d">>   \* index.md
P_notes_mdx          == <<"n", "o", "t", "e", "s", ".", "m", "d", "x">>   \* notes.mdx
P_style_css          == <<"s", "t", "y", "l", "e", ".", "c", "s", "s">>   \* style.css

Candidates ==
    <<P_hidden_md, P_Index_md, P_README, P_about_index_html,
      P_about_md, P_bad_md, P_blog_pic_png, P_blog_post_md,
      P_default_x_md, P_img_logo_png, P_index_html_x_md, P_index_md,
      P_notes_mdx, P_style_css>>

Files == 1..Len(Candidates)

\* The layouts directory: load_templates finds these templates; rendering
\* boom.html raises a runtime error.  No template is named nope.html.
L_index == S_index \o <<Dot>> \o S_html
L_post  == <<"p", "o", "s", "t", ".">> \o S_html
L_nope  == <<"n", "o", "p", "e", ".">> \o S_html
L_boom  == <<"b", "o", "o", "m", ".">> \o S_html
Templates == {L_index, L_post, L_boom}
RuntimeError == {L_boom}

\* What a file holds: no frontmatter, or a frontmatter naming a layout.
HeaderKinds == {"none", "post", "nope", "boom"}

Opening == <<"-", "-", "-", "\n">>
LayoutLine(l) == S_layout \o <<":", " ">> \o l \o <<"\n">>
Body == <<"H", "i", "\n">>

\* The bytes of file f whose header is of kind h.  bad.md starts with two
\* two-byte characters, so its first three bytes are not UTF-8.
FileBytes(f, h) ==
    IF Candidates[f] = P_bad_md THEN <<"C3", "A9", "C3", "A9", "\n">>
    ELSE CASE h = "none" -> Body
           [] h = "post" -> Opening \o LayoutLine(L_post) \o Opening \o Body
           [] h = "nope" -> Opening \o LayoutLine(L_nope) \o Opening \o Body
           [] h = "boom" -> Opening \o LayoutLine(L_boom) \o Opening \o Body

-----------------------------------------------------------------------------
(* read_frontmatter.                                                       *)

\* std::str::from_utf8 on the bytes of the model: "C3" starts a two-byte
\* character and "A9" ends it.
ValidUtf8(b) ==
    \A i \in 1..Len(b) :
        /\ b[i] = "C3" => (i < Len(b) /\ b[i + 1] = "A9")
        /\ b[i] = "A9" => (i > 1 /\ b[i - 1] = "C3")

\* HashMap::insert
Insert(m, k, v) == [x \in (DOMAIN m) \cup {k} |-> IF x = k THEN v ELSE m[x]]

\* The cursor after BufRead::read_line from cursor p: through the next
\* newline, or to the end of the stream.
LineStop(b, p) ==
    LET nls == {j \in (p + 1)..Len(b) : b[j] = NL}
    IN  IF nls = {} THEN Len(b) ELSE Min(nls)

\* Lines 120-130: the loop, from cursor p with mapping m.  It ends at the
\* end of the stream, at a line read_line rejects (not UTF-8: the bytes are
\* consumed and `while let Ok` fails), or at a line that starts with `-`.
RECURSIVE ReadLines(_, _, _)
ReadLines(b, p, m) ==
    IF p >= Len(b) THEN [hm |-> m, pos |-> p]
    ELSE LET e == LineStop(b, p)
             buf == SubSeq(b, p + 1, e)
             kv == SplitOnce(buf, ":")
         IN  IF ~ValidUtf8(buf) \/ buf[1] = "-" THEN [hm |-> m, pos |-> e]
             ELSE IF kv = <<>> THEN ReadLines(b, e, m)
             ELSE ReadLines(b, e, Insert(m, Trim(kv[1]), Trim(kv[2])))

\* Lines 107-133.  status "err" is the io::Error of read_to_string on three
\* bytes that are not UTF-8.
read_frontmatter(b) ==
    LET n == IF Len(b) < 3 THEN Len(b) ELSE 3
        buf == SubSeq(b, 1, n)
    IN  IF ~ValidUtf8(buf) THEN [status |-> "err", hm |-> <<>>, pos |-> n]
        ELSE IF buf # <<"-", "-", "-">> THEN [status |-> "ok", hm |-> <<>>, pos |-> 0]
        ELSE [status |-> "ok"] @@ ReadLines(b, 3, <<>>)

\* Lines 163-178: the rest of the stream, as handed to the markdown parser.
\* The HTML that pulldown_cmark, the highlighter and the inline render_str
\* pass make of a text is left uninterpreted.
RestOf(b, p) == SubSeq(b, p + 1, Len(b))
Html(text) == [html_of |-> text]

-----------------------------------------------------------------------------
(* compile_content.                                                        *)

\* Lines 146-192: what one glob entry adds to `contents`.  "abort" is the
\* `?` of line 162.
CompileFile(file_path, bytes) ==
    IF ~Accepted(file_path) THEN [result |-> "skip"]
    ELSE LET fm == read_frontmatter(bytes)
         IN  IF fm.status = "err" THEN [result |-> "abort"]
             ELSE IF ~ValidUtf8(RestOf(bytes, fm.pos)) THEN [result |-> "skip"]
             ELSE [result |-> "item",
                   item |-> [path |-> file_path,
                             slug |-> Slug(file_path),
                             frontmatter |-> fm.hm,
                             content |-> Html(RestOf(bytes, fm.pos))]]

-----------------------------------------------------------------------------
(* compile_content_map.  The map holds references: indices of `contents`.  *)

\* Lines 91-101, over the items from index k on.
RECURSIVE SectionsFrom(_, _, _, _)
SectionsFrom(cs, k, m, default) ==
    IF k > Len(cs) THEN [hm |-> m, default |-> default]
    ELSE LET sp == SplitOnce(cs[k].path, Sep)
         IN  IF sp = <<>> THEN SectionsFrom(cs, k + 1, m, Append(default, k))
             ELSE IF sp[1] \in DOMAIN m
                  THEN SectionsFrom(cs, k + 1, Insert(m, sp[1], Append(m[sp[1]], k)), default)
                  ELSE SectionsFrom(cs, k + 1, Insert(m, sp[1], <<k>>), default)

\* Lines 87-105.
compile_content_map(cs) ==
    LET r == SectionsFrom(cs, 1, <<>>, <<>>)
    IN  Insert(r.hm, S_default, r.default)

-----------------------------------------------------------------------------
(* The output tree.  A path below the output root is the sequence of its   *)
(* components; <<>> is the output root itself.                             *)

Prefixes(path) == {SubSeq(path, 1, k) : k \in 0..Len(path)}
DirOf(path) == SubSeq(path, 1, Len(path) - 1)

\* Writing file `at` into the files.
Put(files, at, what) ==
    [x \in (DOMAIN files) \cup {at} |-> IF x = at THEN what ELSE files[x]]

\* fs::create_dir_all fails when a file is in the way.
CreateDirAllOk(files, path) == Prefixes(path) \cap (DOMAIN files) = {}

\* fs::File::create fails when the path is a directory or has no parent.
FileCreateOk(dirs, at) == at \notin dirs /\ DirOf(at) \in dirs

\* fs::copy fails when the destination is a directory or has no parent.
FsCopyOk(dirs, at) == at \notin dirs /\ DirOf(at) \in dirs

-----------------------------------------------------------------------------
(* create_files.                                                           *)

\* The stem is joined for every file, `index` included.
OutDirKeepsIndex(path) == Append(Parent(path), FileStem(path))

\* Lines 51-59: the directory of an item's page, below the output root.
OutDir(path) ==
    LET file_stem == FileStem(path)
    IN  IF file_stem = <<>> \/ EqIgnoreAsciiCase(file_stem, S_index)
        THEN Parent(path)
        ELSE Append(Parent(path), file_stem)

\* Lines 73-74: path.join("index") with the extension set to html.
IndexHtml == S_index \o <<Dot>> \o S_html

\* Lines 65-69.
LayoutOf(content) ==
    IF S_layout \in DOMAIN content.frontmatter
    THEN content.frontmatter[S_layout]
    ELSE L_index

\* Line 71: Tera::render fails for a template it does not have and for one
\* that raises an error.
RenderOk(layout) == layout \in Templates /\ layout \notin RuntimeError

\* A render that fails where the loop should go on takes the whole pass down.
AfterRenderAborts(dirs, file_path, content) ==
    IF RenderOk(LayoutOf(content)) /\ FileCreateOk(dirs, file_path)
    THEN "written"
    ELSE "file_error"

\* Lines 72-79: what the loop does with the result of the render, for the
\* page at file_path.  "written" and "skipped" go on to the next item;
\* "file_error" is the `?` of line 75, which leaves create_files.
AfterRender(dirs, file_path, content) ==
    IF RenderOk(LayoutOf(content))
    THEN IF FileCreateOk(dirs, file_path) THEN "written" ELSE "file_error"
    ELSE "skipped"

\* Lines 51-81: one iteration of the loop.  "dir_error" is the `?` of line
\* 61, which leaves create_files before the item is rendered.
MaterializeItem(dirs, files, content) ==
    IF ~HasParent(content.path)
    THEN [result |-> "skipped", at |-> <<>>, dirs |-> dirs, files |-> files]
    ELSE LET path == OutDir(content.path)
             file_path == Append(path, IndexHtml)
             made == dirs \cup Prefixes(path)
             res == AfterRender(made, file_path, content)
         IN  IF ~CreateDirAllOk(files, path)
             THEN [result |-> "dir_error", at |-> <<>>, dirs |-> dirs, files |-> files]
             ELSE [result |-> res,
                   at |-> file_path,
                   dirs |-> made,
                   files |-> IF res = "written"
                             THEN Put(files, file_path,
                                      [page_of |-> content.path,
                                       layout |-> LayoutOf(content)])
                             ELSE files]

-----------------------------------------------------------------------------
(* copy_static.                                                            *)

\* Lines 214-229: one glob entry.  "io_error" is the `?` of line 224, which
\* leaves copy_static.
CopyEntry(dirs, files, file_path) ==
    IF ~Eligible(file_path) THEN [result |-> "skipped", files |-> files]
    ELSE IF FsCopyOk(dirs, Components(file_path))
    THEN [result |-> "copied",
          files |-> Put(files, Components(file_path), [copy_of |-> file_path])]
    ELSE [result |-> "io_error", files |-> files]

-----------------------------------------------------------------------------
(* main(): the pipeline over one content tree.                             *)

\* compile_content on each file of Candidates, for each header it may hold.
Compiled == [f \in Files |-> [h \in HeaderKinds |-> CompileFile(Candidates[f], FileBytes(f, h))]]

Trees == {T \in SUBSET Files : Cardinality(T) <= MaxFiles}

\* A file compile_content never opens, or whose bytes are fixed, has no
\* header to choose.
HeaderChoices(f) ==
    IF Accepted(Candidates[f]) /\ Candidates[f] # P_bad_md
    THEN HeaderKinds
    ELSE {"none"}

FmIdle == stream = <<>> /\ pos = 0 /\ hm = <<>> /\ fmpc = "idle" /\ md_input = <<>>
CtxIdle == base_context = <<>> /\ item_fields = <<>> /\ context = <<>> /\ ctxpc = "idle"

\* The run starts on a content tree of the model, with no output root yet
\* (a first build).
Init ==
    /\ tree \in Trees
    /\ header \in {h \in [tree -> HeaderKinds] : \A f \in tree : h[f] \in HeaderChoices(f)}
    /\ pc = "compile"
    /\ todo = tree
    /\ contents = <<>>
    /\ content_map = <<>>
    /\ outDirs = {}
    /\ outFiles = <<>>
    /\ wrote = <<>>
    /\ copied = {}
    /\ copy_status = "running"
    /\ FmIdle
    /\ CtxIdle

\* Lines 143-196: the next glob entry.
Compile ==
    /\ pc = "compile"
    /\ todo # {}
    /\ LET f == Min(todo)
           r == Compiled[f][header[f]]
       IN  /\ todo' = todo \ {f}
           /\ contents' = IF r.result = "item" THEN Append(contents, r.item) ELSE contents
           /\ pc' = IF r.result = "abort" THEN "failed" ELSE pc
    /\ UNCHANGED <<tree, header, content_map, outDirs, outFiles, wrote, copied, copy_status>>
    /\ UNCHANGED <<fmVars, ctxVars>>

\* Lines 269-273: compile_content has returned; the section map is built.
Aggregate ==
    /\ pc = "compile"
    /\ todo = {}
    /\ content_map' = compile_content_map(contents)
    /\ pc' = "create"
    /\ todo' = 1..Len(contents)
    /\ UNCHANGED <<tree, header, contents, outDirs, outFiles, wrote, copied, copy_status>>
    /\ UNCHANGED <<fmVars, ctxVars>>

\* Lines 50-82: the next item of create_files.
Materialize ==
    /\ pc = "create"
    /\ todo # {}
    /\ LET k == Min(todo)
           r == MaterializeItem(outDirs, outFiles, contents[k])
       IN  /\ todo' = todo \ {k}
           /\ outDirs' = r.dirs
           /\ outFiles' = r.files
           /\ wrote' = Append(wrote, [result |-> r.result, at |-> r.at])
           /\ pc' = IF r.result \in {"dir_error", "file_error"} THEN "failed" ELSE pc
    /\ UNCHANGED <<tree, header, contents, content_map, copied, copy_status>>
    /\ UNCHANGED <<fmVars, ctxVars>>

\* Lines 275-276: create_files has returned Ok; copy_static starts.
StartCopy ==
    /\ pc = "create"
    /\ todo = {}
    /\ pc' = "copy"
    /\ todo' = tree
    /\ UNCHANGED <<tree, header, contents, content_map, outDirs, outFiles, wrote,
                   copied, copy_status>>
    /\ UNCHANGED <<fmVars, ctxVars>>

\* Lines 213-230: the next glob entry of copy_static.  An error leaves the
\* loop; main drops it (`let _ =`).
CopyStatic ==
    /\ pc = "copy"
    /\ copy_status = "running"
    /\ todo # {}
    /\ LET f == Min(todo)
           r == CopyEntry(outDirs, outFiles, Candidates[f])
       IN  /\ todo' = todo \ {f}
           /\ outFiles' = r.files
           /\ copied' = IF r.result = "copied" THEN copied \cup {f} ELSE copied
           /\ copy_status' = IF r.result = "io_error" THEN "err" ELSE copy_status
    /\ UNCHANGED <<tree, header, pc, contents, content_map, outDirs, wrote>>
    /\ UNCHANGED <<fmVars, ctxVars>>

\* Lines 232 and 278-286: copy_static returns; canonicalize().unwrap() panics
\* when the output root does not exist.
Finish ==
    /\ pc = "copy"
    /\ copy_status = "err" \/ todo = {}
    /\ pc' = IF <<>> \in outDirs THEN "done" ELSE "panicked"
    /\ copy_status' = IF copy_status = "running" THEN "ok" ELSE copy_status
    /\ UNCHANGED <<tree, header, todo, contents, content_map, outDirs, outFiles, wrote,
                   copied>>
    /\ UNCHANGED <<fmVars, ctxVars>>

Next == Compile \/ Aggregate \/ Materialize \/ StartCopy \/ CopyStatic \/ Finish

Spec == Init /\ [][Next]_vars

-----------------------------------------------------------------------------
(* read_frontmatter and the read of the body, on one stream.               *)

PipeIdle ==
    /\ tree = {} /\ header = <<>> /\ pc = "idle" /\ todo = {}
    /\ contents = <<>> /\ content_map = <<>>
    /\ outDirs = {} /\ outFiles = <<>> /\ wrote = <<>>
    /\ copied = {} /\ copy_status = "idle"

\* The lines a stream of the model is made of (without their newline).
LineChoices ==
    { <<"-", "-", "-">>,
      <<"-", "-", "-", "-">>,
      <<"-", "-", "-", "k", ":", "v">>,
      <<"k", ":", " ", "v">>,
      <<" ", "k", " ", ":", "w", ":", "z">>,
      <<"H", "i">>,
      <<>>,
      <<"C3", "A9", "C3", "A9">>,
      <<"x", "A9">> }

\* The lines ls, each ended by a newline, the last one only when `closed`.
RECURSIVE Join(_, _)
Join(ls, closed) ==
    IF ls = <<>> THEN <<>>
    ELSE IF Len(ls) = 1 THEN (IF closed THEN ls[1] \o <<NL>> ELSE ls[1])
    ELSE ls[1] \o <<NL>> \o Join(Tail(ls), closed)

Streams ==
    {Join(ls, closed) : <<ls, closed>> \in
        (UNION {[1..n -> LineChoices] : n \in 0..MaxLines}) \X BOOLEAN}

InitFM ==
    /\ stream \in Streams
    /\ pos = 0
    /\ hm = <<>>
    /\ fmpc = "start"
    /\ md_input = <<>>
    /\ PipeIdle
    /\ CtxIdle

\* Line 162.
FMRead ==
    /\ fmpc = "start"
    /\ LET r == read_frontmatter(stream)
       IN  /\ fmpc' = r.status
           /\ hm' = r.hm
           /\ pos' = r.pos
    /\ UNCHANGED <<stream, md_input>>
    /\ UNCHANGED <<pipeVars, ctxVars>>

\* Lines 163-166: read_to_end, then from_utf8; a body that is not UTF-8
\* makes no item.
FMBody ==
    /\ fmpc = "ok"
    /\ pos' = Len(stream)
    /\ IF ValidUtf8(RestOf(stream, pos))
       THEN md_input' = RestOf(stream, pos) /\ fmpc' = "body"
       ELSE md_input' = md_input /\ fmpc' = "dropped"
    /\ UNCHANGED <<stream, hm>>
    /\ UNCHANGED <<pipeVars, ctxVars>>

NextFM == FMRead \/ FMBody

SpecFM == InitFM /\ [][NextFM]_vars

-----------------------------------------------------------------------------
(* create_files' render context, for a base context it is called with.    *)

\* Context::from_serialize(content): one entry per field of Content.
FromSerialize(content) ==
    [k \in {"path", "slug", "frontmatter", "content"} |-> content[k]]

\* Line 63, Context::extend(source): the entries of source are moved into
\* self (BTreeMap::append), replacing those self has under the same key.
Extend(self, source) ==
    [k \in (DOMAIN self) \cup (DOMAIN source) |->
        IF k \in DOMAIN source THEN source[k] ELSE self[k]]

\* Lines 62-63.
RenderContext(content, base) == Extend(FromSerialize(content), base)

\* The items compile_content makes of the files of the model.
Items ==
    {Compiled[f][h].item :
        <<f, h>> \in {fh \in Files \X HeaderKinds : Compiled[fh[1]][fh[2]].result = "item"}}

\* What a base context holds under key k: under `data` the section index of
\* no item, under a key named like a field of Content a value of that
\* field's type.
BaseValue(k) ==
    CASE k = "data" -> compile_content_map(<<>>)
      [] k = "content" -> Html(<<"b", "a", "s", "e">>)
      [] OTHER -> <<"b", "a", "s", "e">>

\* The base contexts: main's (lines 272-273, `data` alone), and ones that
\* also hold a key named like a field of Content, or another key.
BaseContexts ==
    {[k \in {"data"} \cup extra |-> BaseValue(k)] :
        extra \in SUBSET {"path", "content", "title"}}

InitCtx ==
    /\ base_context \in BaseContexts
    /\ item_fields \in Items
    /\ context = <<>>
    /\ ctxpc = "start"
    /\ PipeIdle
    /\ FmIdle

\* Lines 62-63.
CtxMerge ==
    /\ ctxpc = "start"
    /\ context' = RenderContext(item_fields, base_context)
    /\ ctxpc' = "merged"
    /\ UNCHANGED <<base_context, item_fields>>
    /\ UNCHANGED <<pipeVars, fmVars>>

\* Line 71: the template is rendered with the context.
CtxRender ==
    /\ ctxpc = "merged"
    /\ ctxpc' = "rendered"
    /\ UNCHANGED <<base_context, item_fields, context>>
    /\ UNCHANGED <<pipeVars, fmVars>>

\* Line 50: the loop goes on to another item; the context is dropped.
CtxNextItem ==
    /\ ctxpc = "rendered"
    /\ item_fields' \in Items
    /\ context' = <<>>
    /\ ctxpc' = "start"
    /\ UNCHANGED base_context
    /\ UNCHANGED <<pipeVars, fmVars>>

NextCtx == CtxMerge \/ CtxRender \/ CtxNextItem

SpecCtx == InitCtx /\ [][NextCtx]_vars

-----------------------------------------------------------------------------
(* Properties of the pipeline (Spec).                                      *)

\* main has got past the point named.
Aggregated == pc \in {"create", "copy", "done", "panicked"}
Materialized == pc \in {"copy", "done", "panicked"}
Ended == pc \in {"done", "panicked"}

\* The path with its file name removed, as text (with the trailing `/`).
DirText(path) ==
    IF IndicesOf(path, Sep) = {} THEN <<>>
    ELSE SubSeq(path, 1, Max(IndicesOf(path, Sep)))

\* The file name up to its recognized content extension: the first dot that
\* md, html or tera follows, and whatever comes after it, are dropped.
NameSansContentExt(name) ==
    LET cuts == {i \in 1..Len(name) :
                    name[i] = Dot /\ \E l \in {S_md, S_html, S_tera} : LitAt(name, i + 1, l)}
    IN  IF cuts = {} THEN name ELSE SubSeq(name, 1, Min(cuts) - 1)

\* The slug as specified: `/`, the directory, and the file name without its
\* content extension unless that is `index`.
SlugAsSpecified(path) ==
    LET base == NameSansContentExt(FileName(path))
    IN  <<Sep>> \o DirText(path) \o (IF base = S_index THEN <<>> ELSE base)

\* C1: every item's slug is `/` followed by its path with a trailing `index`
\* segment and the content extension stripped and nothing else removed;
\* about/index.html gives /about/.
C1_SlugAsSpecified ==
    \A k \in 1..Len(contents) : contents[k].slug = SlugAsSpecified(contents[k].path)

\* The page of an item as specified: <parent>/<stem>/index.html, without
\* <stem> when the stem is empty or is `index` in any letter case.
PageAsSpecified(path) ==
    LET stem == FileStem(path)
    IN  Parent(path)
        \o (IF stem = <<>> \/ EqIgnoreAsciiCase(stem, S_index) THEN <<>> ELSE <<stem>>)
        \o <<IndexHtml>>

\* C2: the page of every item create_files writes is at
\* <output>/<parent>/<stem>/index.html, without <stem> for an `index` stem:
\* about.md at about/index.html, index.md at index.html, blog/post.md at
\* blog/post/index.html.  A page is written for every item whose render
\* succeeds, unless an I/O error stops the pass.
C2_PageAtSpecifiedPath ==
    \A k \in 1..Len(wrote) :
        LET path == contents[k].path
        IN  /\ wrote[k].result = "written" =>
                /\ wrote[k].at = PageAsSpecified(path)
                /\ wrote[k].at \in DOMAIN outFiles
                /\ path = P_about_md => wrote[k].at = <<<<"a", "b", "o", "u", "t">>, IndexHtml>>
                /\ path = P_index_md => wrote[k].at = <<IndexHtml>>
                /\ path = P_blog_post_md =>
                      wrote[k].at = <<<<"b", "l", "o", "g">>, <<"p", "o", "s", "t">>, IndexHtml>>
            /\ RenderOk(LayoutOf(contents[k])) =>
                  wrote[k].result \in {"written", "dir_error", "file_error"}

\* C2's case: about.md, index.md and blog/post.md have all been written.
C2_Witness ==
    /\ Materialized
    /\ {contents[k].path : k \in 1..Len(contents)} = {P_about_md, P_index_md, P_blog_post_md}
    /\ \A k \in 1..Len(wrote) : wrote[k].result = "written"

\* The section of an item as specified: the text before the first
\* separator of its path, or `default` when its path has none.
SectionAsSpecified(path) ==
    IF IndicesOf(path, Sep) = {} THEN S_default
    ELSE SubSeq(path, 1, Min(IndicesOf(path, Sep)) - 1)

\* C3: the section index holds every item exactly once, under the key that
\* is the text before the first separator of its path (also when that text
\* is `default`) or under `default` without one, in compile order.
C3_EveryItemOnceUnderItsSection ==
    Aggregated =>
        /\ \A k \in 1..Len(contents) :
              /\ SectionAsSpecified(contents[k].path) \in DOMAIN content_map
              /\ \A key \in DOMAIN content_map :
                    Cardinality({i \in DOMAIN content_map[key] : content_map[key][i] = k})
                        = IF key = SectionAsSpecified(contents[k].path) THEN 1 ELSE 0
        /\ \A key \in DOMAIN content_map :
              \A i, j \in DOMAIN content_map[key] :
                  i < j => content_map[key][i] < content_map[key][j]

\* A file name with one of the recognized content extensions.
RecognizedExt(path) == HasExtension(path) /\ Extension(path) \in {S_md, S_html, S_tera}

\* C4: a hidden file and a file whose extension is not md, html or tera (a
\* file without extension included) make no item and no page; and once the
\* run has ended, every file with another extension that is not hidden has
\* been copied to its own path under the output root.
C4_OnlyRecognizedFilesCompiled ==
    /\ \A k \in 1..Len(contents) :
          ~is_hidden(contents[k].path) /\ RecognizedExt(contents[k].path)
    /\ \A at \in DOMAIN outFiles :
          "page_of" \in DOMAIN outFiles[at] =>
              ~is_hidden(outFiles[at].page_of) /\ RecognizedExt(outFiles[at].page_of)
    /\ Ended =>
          \A f \in tree :
              (~is_hidden(Candidates[f]) /\ HasExtension(Candidates[f])
                   /\ ~RecognizedExt(Candidates[f])) =>
                  /\ Components(Candidates[f]) \in DOMAIN outFiles
                  /\ outFiles[Components(Candidates[f])] = [copy_of |-> Candidates[f]]

\* C5: an item whose layout render fails (no such template, or a runtime
\* error) gets no page and does not end the pass: the loop goes on, and
\* when create_files has returned every other item, before it and after
\* it, has its page.
C5_RenderFailureSkipsOnlyThatItem ==
    /\ \A k \in 1..Len(wrote) :
          /\ ~RenderOk(LayoutOf(contents[k])) =>
                /\ wrote[k].result \in {"skipped", "dir_error"}
                /\ \A at \in DOMAIN outFiles :
                      "page_of" \in DOMAIN outFiles[at] =>
                          outFiles[at].page_of # contents[k].path
          /\ wrote[k].result = "skipped" => (k = Len(wrote) => pc # "failed")
          /\ (RenderOk(LayoutOf(contents[k])) /\ (k < Len(wrote) \/ pc # "failed")) =>
                /\ wrote[k].result = "written"
                /\ wrote[k].at \in DOMAIN outFiles
    /\ pc = "create" => todo = (Len(wrote) + 1)..Len(contents)
    /\ Materialized => Len(wrote) = Len(contents)

\* C5's case: the second of three items names a template that does not
\* exist; the first and the third have their pages.
C5_Witness ==
    /\ Materialized
    /\ Len(wrote) = 3
    /\ wrote[1].result = "written"
    /\ LayoutOf(contents[2]) = L_nope /\ wrote[2].result = "skipped"
    /\ wrote[3].result = "written"
    /\ wrote[1].at # wrote[3].at
    /\ {wrote[1].at, wrote[3].at} \subseteq DOMAIN outFiles

\* C9: a copy that fails does not end copy_static, every other eligible
\* file is still copied, and the directories a copy needs are created: when
\* the run has ended with the output root in place, every entry has been
\* visited and every eligible file whose place is not taken by a directory
\* is at its path under the output root.
C9_CopyFailureDoesNotStopCopies ==
    pc = "done" =>
        /\ todo = {}
        /\ \A f \in tree :
              (Eligible(Candidates[f]) /\ Components(Candidates[f]) \notin outDirs) =>
                  /\ f \in copied
                  /\ Components(Candidates[f]) \in DOMAIN outFiles

\* C10: no two items are written to the same output file (stated here for
\* items whose paths differ by more than the case of their letters).
C10_OutputPathsInjective ==
    \A j, k \in 1..Len(wrote) :
        (/\ j # k
         /\ ~EqIgnoreAsciiCase(contents[j].path, contents[k].path)
         /\ wrote[j].result = "written"
         /\ wrote[k].result = "written") =>
            wrote[j].at # wrote[k].at

-----------------------------------------------------------------------------
(* Properties of read_frontmatter (SpecFM).                                *)

\* The first line of a stream, without its newline.
FirstLine(b) ==
    IF IndicesOf(b, NL) = {} THEN b ELSE SubSeq(b, 1, Min(IndicesOf(b, NL)) - 1)

Delimiter == <<"-", "-", "-">>

\* read_frontmatter has returned.
Returned == fmpc \in {"ok", "err", "body", "dropped"}

\* C6: for a file whose first line is not exactly `---` (a first line such
\* as `----`, a file that begins with a multi-byte character, a short or
\* empty file), read_frontmatter returns the empty mapping with the stream
\* at position zero, and the body handed to the markdown parser is the
\* whole file.  Stated for files that are UTF-8.
C6_NoOpeningLineWholeFileIsBody ==
    (ValidUtf8(stream) /\ FirstLine(stream) # Delimiter /\ Returned) =>
        /\ fmpc \in {"ok", "body"}
        /\ hm = <<>>
        /\ fmpc = "ok" => pos = 0
        /\ fmpc = "body" => md_input = stream

\* The mapping and the cursor as specified, over the lines from cursor p on:
\* the lines before the first one that starts with `-`, each with a colon
\* giving key and value, and the cursor after that line.
RECURSIVE HeaderAsSpecified(_, _, _)
HeaderAsSpecified(b, p, m) ==
    IF p >= Len(b) THEN [hm |-> m, pos |-> Len(b)]
    ELSE LET e == LineStop(b, p)
             line == SubSeq(b, p + 1, e)
             colons == IndicesOf(line, ":")
         IN  IF line[1] = "-" THEN [hm |-> m, pos |-> e]
             ELSE IF colons = {} THEN HeaderAsSpecified(b, e, m)
             ELSE HeaderAsSpecified(b, e,
                      Insert(m, Trim(SubSeq(line, 1, Min(colons) - 1)),
                                Trim(SubSeq(line, Min(colons) + 1, Len(line)))))

\* C7: for a stream that starts with `---`, read_frontmatter returns the
\* mapping of the lines that follow the first line, up to the first of them
\* that starts with `-` or the end of the stream, and leaves the cursor
\* after that closing line.  Stated for streams that are UTF-8.
C7_MappingOfTheLinesThatFollow ==
    (ValidUtf8(stream) /\ LitAt(stream, 1, Delimiter) /\ Returned) =>
        /\ fmpc # "err"
        /\ hm = HeaderAsSpecified(stream, LineStop(stream, 0), <<>>).hm
        /\ fmpc = "ok" => pos = HeaderAsSpecified(stream, LineStop(stream, 0), <<>>).pos

-----------------------------------------------------------------------------
(* Properties of the render context (SpecCtx).                             *)

====
